---- MODULE Spec2Model ----
(***************************************************************************)
(* Trippy: the conversation driver (app.py) and the travel-planner backend *)
(* (backend.py).  One action per Streamlit script run of main(): a run     *)
(* ends at st.rerun() or at the end of the script, and session state       *)
(* persists between runs.                                                  *)
(*                                                                         *)
(* Model replies are token sequences.  A token is a triple                 *)
(* <<kind, key, value>>: "{" and "}" are the brace characters, "txt" is a  *)
(* run of prose without braces, and "pair" is one "key": value member.     *)
(* A JSON value is written as a string: "s:..." is a JSON string (so "s:"  *)
(* is the empty string and "s:0" the string "0"), "n:..." a JSON number,   *)
(* "null" the JSON null.                                                   *)
(***************************************************************************)
EXTENDS Integers, Sequences, FiniteSets, TLC

\* ------------------------------------------------------------------ bounds
\* Number of chat inputs the user types over the whole run.
MaxInputs == 2

\* ------------------------------------------------------- backend constants
\* The order in which the data-model section of the specification lists the
\* fields.
required_fields_Listed ==
    <<"source", "destination", "start_date", "end_date", "number_of_adults",
      "number_of_children", "budget_per_person", "travel_style">>

\* backend.py:18
required_fields ==
    <<"source", "destination", "start_date", "end_date", "number_of_adults",
      "budget_per_person", "number_of_children", "travel_style">>

RequiredSet == {required_fields[i] : i \in 1..Len(required_fields)}

\* A key the extraction prompt does not name.
ExtraKey == "notes"

\* Python truthiness of a decoded JSON value: bool(v).
Falsy == {"s:", "n:0", "null"}
Truthy(v) == v \notin Falsy

\* ------------------------------------------------------------ reply tokens
LB == <<"{", "", "">>
RB == <<"}", "", "">>
TXT == <<"txt", "", "">>
Pair(k, v) == <<"pair", k, v>>

\* str.find(ch): 0-based index of the first token of that kind, -1 if none.
find(s, kind) ==
    IF \E i \in 1..Len(s) : s[i][1] = kind
    THEN (CHOOSE i \in 1..Len(s) :
            s[i][1] = kind /\ \A j \in 1..(i - 1) : s[j][1] # kind) - 1
    ELSE -1

\* str.rfind(ch): 0-based index of the last token of that kind, -1 if none.
rfind(s, kind) ==
    IF \E i \in 1..Len(s) : s[i][1] = kind
    THEN (CHOOSE i \in 1..Len(s) :
            s[i][1] = kind /\ \A j \in (i + 1)..Len(s) : s[j][1] # kind) - 1
    ELSE -1

\* Python slice s[a:b] for 0 <= a and 0 <= b <= len(s).
Slice(s, a, b) == SubSeq(s, a + 1, b)

\* json.loads succeeds on a text exactly when it is one object: an opening
\* brace, members, a closing brace, and nothing else.
json_ok(t) ==
    /\ Len(t) >= 2
    /\ t[1] = LB
    /\ t[Len(t)] = RB
    /\ \A i \in 2..(Len(t) - 1) : t[i][1] = "pair"

\* The dict json.loads builds: a later member with the same key wins.
json_loads(t) ==
    LET keys == {t[i][2] : i \in 2..(Len(t) - 1)}
    IN [k \in keys |->
          LET last == CHOOSE i \in 2..(Len(t) - 1) :
                        t[i][2] = k /\ \A j \in (i + 1)..(Len(t) - 1) : t[j][2] # k
          IN t[last][3]]

\* A bracket scan that ends at the first "}" instead of the last.
ScanStatus_FirstClose(resp) ==
    LET s == find(resp, "{")
        e == find(resp, "}") + 1
    IN IF s # -1 /\ e # 0
       THEN IF json_ok(Slice(resp, s, e)) THEN "ok" ELSE "undecodable"
       ELSE "nopair"

\* The bracket scan shared by extraction and ranking (backend.py:54-58,
\* 183-186): "nopair" when either brace is missing, "undecodable" when the
\* text between the first "{" and the last "}" is not a JSON object.
ScanStatus(resp) ==
    LET s == find(resp, "{")
        e == rfind(resp, "}") + 1
    IN IF s # -1 /\ e # 0
       THEN IF json_ok(Slice(resp, s, e)) THEN "ok" ELSE "undecodable"
       ELSE "nopair"

ScanObject(resp) == json_loads(Slice(resp, find(resp, "{"), rfind(resp, "}") + 1))

\* ------------------------------------------------------ completeness check
\* A completeness check that looks only at which keys are present.
get_missing_fields_KeysOnly(info) ==
    SelectSeq(required_fields, LAMBDA f : f \notin DOMAIN info)

\* backend.py:73-75
get_missing_fields(info) ==
    SelectSeq(required_fields,
              LAMBDA f : f \notin DOMAIN info \/ ~Truthy(info[f]))

\* Completeness decided by counting the collected keys.
is_info_complete_ByCount(info) == Cardinality(DOMAIN info) >= Len(required_fields)

\* backend.py:77-79
is_info_complete(info) == Len(get_missing_fields(info)) = 0

\* collected_info.update(info), without the filter on falsy values.
Merge_Unfiltered(old, info) ==
    [k \in (DOMAIN old) \cup (DOMAIN info) |->
        IF k \in DOMAIN info THEN info[k] ELSE old[k]]

\* backend.py:61  collected_info.update({k: v for k, v in info.items() if v})
Merge(old, info) ==
    LET kept == {k \in DOMAIN info : Truthy(info[k])}
    IN [k \in (DOMAIN old) \cup kept |-> IF k \in kept THEN info[k] ELSE old[k]]

\* ------------------------------------------------------------ text helpers
\* Short texts that the code trims or upper-cases are sequences of
\* characters; a longer text that is only passed along is one element.
Whitespace == {" "}

RECURSIVE lstrip(_)
lstrip(s) == IF s # <<>> /\ Head(s) \in Whitespace THEN lstrip(Tail(s)) ELSE s

RECURSIVE rstrip(_)
rstrip(s) ==
    IF s # <<>> /\ s[Len(s)] \in Whitespace
    THEN rstrip(SubSeq(s, 1, Len(s) - 1))
    ELSE s

\* str.strip()
strip(s) == rstrip(lstrip(s))

UpperOf(c) ==
    CASE c = "n" -> "N"
      [] c = "a" -> "A"
      [] c = "d" -> "D"
      [] c = "e" -> "E"
      [] c = "l" -> "L"
      [] OTHER -> c

\* str.upper()
upper(s) == [i \in 1..Len(s) |-> UpperOf(s[i])]

NA == <<"N", "/", "A">>

\* ------------------------------------------------------------ Python values
\* Values held in session state: None, an {"error": ...} dict, or a result.
None == [kind |-> "None", data |-> <<>>]
Unset == [kind |-> "unset", data |-> <<>>]
ErrorDict(msg) == [kind |-> "error", data |-> msg]

\* A lookup that always gives the default.
getattr_Default(v) == [kind |-> "None", data |-> <<>>]

\* getattr(st.session_state, name, None)  (app.py:131-132)
getattr(v) == IF v = Unset THEN None ELSE v

\* ------------------------------------------------------------------ inputs
UserInputs == {"I want to go to Goa"}

\* The markers for an inference call that ends by raising instead of
\* returning a reply (llm.py:140 after five failed attempts): one for
\* replies read as tokens, one for replies read as characters.
RaisesReply == << <<"raises", "", "">> >>
Raises == <<"raises">>

DefaultValue(f) ==
    CASE f = "source" -> "s:Delhi"
      [] f = "destination" -> "s:Goa"
      [] f = "start_date" -> "s:June 10"
      [] f = "end_date" -> "s:June 15"
      [] f = "number_of_adults" -> "s:2"
      [] f = "budget_per_person" -> "s:20000"
      [] f = "number_of_children" -> "s:0"
      [] f = "travel_style" -> "s:economy"
      [] OTHER -> "s:window seat"

\* Encodings a model may give the children count of "no kids".
ChildValues == {"s:0", "n:0"}

AllEight(cv) ==
    [i \in 1..Len(required_fields) |->
        Pair(required_fields[i],
             IF required_fields[i] = "number_of_children"
             THEN cv ELSE DefaultValue(required_fields[i]))]

AllExcept(k) == SelectSeq(AllEight("s:0"), LAMBDA t : t[2] # k)

AllWith(v) == [i \in 1..Len(required_fields) |-> Pair(required_fields[i], v)]

Braced(body) == <<LB>> \o body \o <<RB>>

ObjectBodies ==
    {<<>>}
    \cup {<<Pair(k, DefaultValue(k))>> : k \in {"source", "destination", ExtraKey}}
    \cup {<<Pair("number_of_children", v)>> : v \in {"null", "s:2", "s:none"}}
    \cup {<<Pair("destination", "s:Pune"), Pair("destination", "s:Goa")>>}
    \cup {AllEight(cv) : cv \in ChildValues}
    \cup {AllExcept(k) : k \in {"destination", "number_of_children"}}
    \cup {AllWith(v) : v \in {"s:", "n:0"}}

\* Replies with no decodable object between the first "{" and last "}".
BadReplies ==
    { <<TXT>>, <<LB, Pair("destination", "s:Goa")>>,
      <<Pair("destination", "s:Goa"), RB>>, <<RB, TXT, LB>>,
      Braced(<<Pair("source", "s:Delhi")>>) \o <<TXT>>
          \o Braced(<<Pair("destination", "s:Goa")>>) }

ExtractionReplies ==
    {Braced(b) : b \in ObjectBodies}
    \cup {<<TXT>> \o Braced(b) \o <<TXT>> :
            b \in {<<Pair("destination", "s:Goa")>>, AllEight("s:0")}}
    \cup BadReplies

\* Replies to the airport-code prompt (backend.py:110).
NAReplies ==
    { <<"N", "/", "A">>, <<"n", "/", "a">>,
      <<" ", "n", "/", "A", " ">>, <<" ", " ", "N", "/", "a">> }
SourceCodeReplies == NAReplies \cup {<<"D", "E", "L">>, <<" ", "d", "e", "l", " ">>, Raises}
DestCodeReplies == {<<"G", "O", "I">>, <<"n", "/", "a", " ">>, Raises}

\* The model's reply to a date-conversion prompt for the collected value v.
ConvertedDate(v) == <<" ", v, "as YYYY-MM-DD">>

FlightInputs ==
    {[src |-> c, dst |-> <<"G", "O", "I">>, dates |-> "ok", provider |-> "ok"] :
        c \in SourceCodeReplies}
    \cup {[src |-> <<"D", "E", "L">>, dst |-> c, dates |-> "ok", provider |-> "ok"] :
        c \in DestCodeReplies}
    \cup {[src |-> <<"D", "E", "L">>, dst |-> <<"G", "O", "I">>, dates |-> d, provider |-> p] :
        d \in {"ok", "raises"}, p \in {"ok", "raises_outbound", "raises_return"}}

\* Provider results: a list of hotel names.
HotelLists == {<<"Taj Fort Aguada">>, <<>>}

\* Texts that have "error" as a substring.
TextsWithError == {"s:no error found"}

HotelInputs ==
    {[dates |-> "ok", provider |-> "ok", hotels |-> h] : h \in HotelLists}
    \cup {[dates |-> "raises", provider |-> "ok", hotels |-> <<>>],
          [dates |-> "ok", provider |-> "raises", hotels |-> <<>>]}

\* Replies to a ranking prompt (backend.py:182, 258).
RankReplies ==
    { <<TXT>> \o Braced(<<Pair("best", "s:option 1")>>),
      Braced(<<Pair("best", "s:no error found")>>),
      <<TXT>>, <<LB, TXT, RB>>, <<RB, LB>>,
      RaisesReply }

\* ------------------------------------------------------------- call record
Call(fn, args) == [fn |-> fn, args |-> args]

\* int(v) of a collected value: defined on integer literals only.
IntLiterals == {"s:0", "s:1", "s:2", "s:3", "n:0", "n:1", "n:2"}
IntOf(v) ==
    CASE v = "s:0" -> 0
      [] v \in {"s:1", "n:1"} -> 1
      [] v \in {"s:2", "n:2"} -> 2
      [] v = "s:3" -> 3
      [] OTHER -> 0

\* "error" in str(x)  (app.py:113, 116, 119)
ErrorInStr(x) ==
    \/ x.kind = "error"
    \/ \E i \in 1..Len(x.data) : x.data[i] \in TextsWithError

\* A truthiness test that takes every session value as true.
TruthyValue_Always(x) == x.kind # "missing"

\* Python truthiness of a session value.
TruthyValue(x) ==
    CASE x.kind \in {"None", "unset"} -> FALSE
      [] x.kind \in {"list", "dict"} -> x.data # <<>>
      [] OTHER -> TRUE

\* ---------------------------------------------------------------- backend
\* An operation of the backend yields its return value and the external
\* calls it made, in order.
Outcome(result, calls) == [result |-> result, calls |-> calls]

LLMCall(purpose, subject) == Call("llm", <<purpose, subject>>)

\* A sentinel test that trims but does not fold case.
IsNoAirport_CaseSensitive(code) == strip(code) = NA

\* backend.py:113, 117: the sentinel test on an airport-code reply.
IsNoAirport(code) == upper(strip(code)) = NA

\* A flight search that asks the provider for the outbound direction only.
get_flights_info_OneWay(info, fi) ==
    IF \/ ~({"source", "destination", "start_date", "end_date"} \subseteq DOMAIN info)
       \/ fi.src = Raises \/ fi.dst = Raises \/ fi.dates = "raises"
       \/ fi.provider # "ok"
    THEN Outcome(ErrorDict(<<"Error getting flight information">>), <<>>)
    ELSE IF IsNoAirport(fi.src)
    THEN Outcome(ErrorDict(<<"No airport found for source", info["source"]>>), <<>>)
    ELSE IF IsNoAirport(fi.dst)
    THEN Outcome(ErrorDict(<<"No airport found for destination", info["destination"]>>), <<>>)
    ELSE Outcome([kind |-> "flights", data |-> <<"start_flights", "end_flights">>],
                 <<Call("search_flights",
                        <<strip(fi.src), strip(fi.dst),
                          strip(ConvertedDate(info["start_date"]))>>)>>)

\* backend.py:101-134
get_flights_info(info, fi) ==
    LET failed == ErrorDict(<<"Error getting flight information">>)
    IN
    IF ~({"source", "destination", "start_date", "end_date"} \subseteq DOMAIN info)
    THEN Outcome(failed, <<>>)
    ELSE
    LET source == info["source"]
        destination == info["destination"]
        c1 == <<LLMCall(<<"airport code">>, <<source>>)>>
        c2 == c1 \o <<LLMCall(<<"airport code">>, <<destination>>)>>
        c3 == c2 \o <<LLMCall(<<"convert date">>, <<info["start_date"]>>)>>
        c4 == c3 \o <<LLMCall(<<"convert date">>, <<info["end_date"]>>)>>
        formatted_start_date == ConvertedDate(info["start_date"])
        formatted_end_date == ConvertedDate(info["end_date"])
        c5 == c4 \o <<Call("search_flights",
                           <<strip(fi.src), strip(fi.dst), strip(formatted_start_date)>>)>>
        c6 == c5 \o <<Call("search_flights",
                           <<strip(fi.dst), strip(fi.src), strip(formatted_end_date)>>)>>
    IN
    IF fi.src = Raises THEN Outcome(failed, c1)
    ELSE IF IsNoAirport(fi.src)
    THEN Outcome(ErrorDict(<<"No airport found for source", source>>), c1)
    ELSE IF fi.dst = Raises THEN Outcome(failed, c2)
    ELSE IF IsNoAirport(fi.dst)
    THEN Outcome(ErrorDict(<<"No airport found for destination", destination>>), c2)
    ELSE IF fi.dates = "raises" THEN Outcome(failed, c3)
    ELSE IF fi.provider = "raises_outbound" THEN Outcome(failed, c5)
    ELSE IF fi.provider = "raises_return" THEN Outcome(failed, c6)
    ELSE Outcome([kind |-> "flights", data |-> <<"start_flights", "end_flights">>], c6)

\* The value json.loads returns for a ranking reply, as a session value.
DictOf(obj, t) ==
    [kind |-> "dict",
     data |-> [i \in 1..(Len(t) - 2) |-> obj[t[i + 1][2]]]]

\* backend.py:136-190 and 223-266: the two ranking steps differ only in
\* their prompt and messages.
Rank(info, what, reply) ==
    LET failed == ErrorDict(<<"Error finding best " \o what>>)
        call == <<LLMCall(<<"rank " \o what>>, <<>>)>>
    IN
    IF "budget_per_person" \notin DOMAIN info THEN Outcome(failed, <<>>)
    ELSE IF reply = RaisesReply THEN Outcome(failed, call)
    ELSE IF ScanStatus(reply) = "nopair"
    THEN Outcome(ErrorDict(<<"Could not parse " \o what \o " response">>), call)
    ELSE IF ScanStatus(reply) = "undecodable" THEN Outcome(failed, call)
    ELSE Outcome(DictOf(ScanObject(reply),
                        Slice(reply, find(reply, "{"), rfind(reply, "}") + 1)),
                 call)

find_best_flight(info, flights_info, reply) == Rank(info, "flight", reply)

get_best_hotels(info, hotels_info, reply) == Rank(info, "hotel", reply)

RECURSIVE Repeat(_, _)
Repeat(s, n) == IF n <= 0 THEN <<>> ELSE s \o Repeat(s, n - 1)

\* A child-ages list that keeps the comma after the last age.
ChildrenAges_TrailingComma(n) == Repeat(<<"8", ",">>, n)

\* backend.py:208-209
ChildrenAges(n) ==
    LET children_ages == Repeat(<<"8", ",">>, n)
    IN IF children_ages # <<>>
       THEN SubSeq(children_ages, 1, Len(children_ages) - 1)
       ELSE <<>>

\* backend.py:192-221, with the request search_hotels builds
\* (hotel_search.py:77-92): children_ages is sent only when non-empty.
get_hotels_info(info, hi) ==
    LET failed == ErrorDict(<<"Error getting hotel information">>)
    IN
    IF ~({"destination", "start_date", "end_date", "number_of_adults",
          "number_of_children"} \subseteq DOMAIN info)
    THEN Outcome(failed, <<>>)
    ELSE
    LET number_of_adults == info["number_of_adults"]
        number_of_children == info["number_of_children"]
        c1 == <<LLMCall(<<"convert date">>, <<info["start_date"]>>)>>
        c2 == c1 \o <<LLMCall(<<"convert date">>, <<info["end_date"]>>)>>
        children_ages == ChildrenAges(IntOf(number_of_children))
        request ==
            << <<info["destination"]>>,
               strip(ConvertedDate(info["start_date"])),
               strip(ConvertedDate(info["end_date"])),
               <<ToString(IntOf(number_of_adults))>>,
               <<ToString(IntOf(number_of_children))>> >>
            \o (IF children_ages # <<>> THEN <<children_ages>> ELSE <<>>)
        c3 == c2 \o <<Call("search_hotels", request)>>
    IN
    IF hi.dates = "raises" THEN Outcome(failed, c1)
    ELSE IF number_of_children \notin IntLiterals THEN Outcome(failed, c2)
    ELSE IF number_of_adults \notin IntLiterals THEN Outcome(failed, c2)
    ELSE IF hi.provider = "raises" THEN Outcome(failed, c3)
    ELSE Outcome([kind |-> "list", data |-> hi.hotels], c3)

\* backend.py:280-286
search_queries(destination) ==
    << <<"Must visit places in", destination>>,
       <<"Crowd favourite places in", destination>>,
       <<"Off beat places in", destination>>,
       <<"Best food, drinks, restaurants to try in", destination>>,
       <<"Best shopping places in", destination>> >>

NumQueries == 5

\* What the outside world does during one composition: per research query
\* whether the web search answers with items ("hit"), without items
\* ("none") or fails ("fails"), and whether the page fetch succeeds; then
\* whether the date conversions, the destination recommendation
\* (weather.py:116-172) and the final model call return or raise.
ComposeInput(search, fetch, dates, weather, final) ==
    [search |-> search, fetch |-> fetch, dates |-> dates, weather |-> weather,
     final |-> final]

AllHit == [i \in 1..NumQueries |-> "hit"]
AllPages == [i \in 1..NumQueries |-> "page"]

ComposeInputs ==
    { ComposeInput(AllHit, AllPages, "ok", "ok", "ok"),
      ComposeInput(<<"hit", "fails", "none", "hit", "hit">>,
                   <<"page", "page", "page", "fails", "page">>, "ok", "ok", "ok"),
      ComposeInput(AllHit, AllPages, "raises", "ok", "ok"),
      ComposeInput(AllHit, AllPages, "ok", "raises", "ok"),
      ComposeInput(AllHit, AllPages, "ok", "ok", "raises") }

\* google_search.py:10-23: the query_result attribute after search(query).
\* A failed request is swallowed and leaves the attribute as it was.
GoogleSearch_search(query_result, query, outcome) ==
    CASE outcome = "hit" -> [kind |-> "dict", data |-> <<"link for">> \o query]
      [] outcome = "none" -> [kind |-> "dict", data |-> <<>>]
      [] OTHER -> query_result

\* google_search.py:25-33
get_first_link(query_result) ==
    IF query_result.kind = "dict" /\ query_result.data # <<>>
    THEN query_result.data
    ELSE <<>>

\* utils.py:10-43: a plain function returning a string, the page text or an
\* error text; an empty URL cannot be requested.
get_data_from_url(url, outcome) ==
    IF url # <<>> /\ outcome = "page"
    THEN [kind |-> "str", data |-> <<"page text of">> \o url]
    ELSE [kind |-> "str", data |-> <<"Error scraping URL">> \o url]

\* asyncio.run(main): runs a coroutine to its value and raises ValueError
\* for any other argument.
asyncio_run(main) ==
    IF main.kind = "coroutine"
    THEN [raised |-> FALSE, value |-> main.data]
    ELSE [raised |-> TRUE, value |-> <<"a coroutine was expected">>]

\* backend.py:288-307: one pass of the loop body for query number i, given
\* the search object's query_result before it.
ResearchQuery(query, query_result, ci, i) ==
    LET after == GoogleSearch_search(query_result, query, ci.search[i])
        first_link == get_first_link(after)
        fetched == get_data_from_url(first_link, ci.fetch[i])
        web_content == asyncio_run(fetched)
        c2 == <<Call("google_search", <<query>>),
                Call("get_data_from_url", <<first_link>>)>>
    IN
    IF web_content.raised
    THEN [query |-> query, query_result |-> after, raised |-> TRUE,
          calls |-> c2,
          result |-> <<"Error retrieving information">> \o web_content.value]
    ELSE [query |-> query, query_result |-> after, raised |-> FALSE,
          calls |-> c2 \o <<LLMCall(<<"extract facts">>, query \o web_content.value)>>,
          result |-> <<"facts for">> \o query]

\* The loop of backend.py:288-307 from query i on.
RECURSIVE Research(_, _, _, _)
Research(queries, query_result, ci, i) ==
    IF i > Len(queries) THEN <<>>
    ELSE LET r == ResearchQuery(queries[i], query_result, ci, i)
         IN <<r>> \o Research(queries, r.query_result, ci, i + 1)

RECURSIVE CallsOf(_)
CallsOf(rs) == IF rs = <<>> THEN <<>> ELSE Head(rs).calls \o CallsOf(Tail(rs))

\* A composition that takes every step after the research loop as
\* succeeding.
create_itinerary_NothingFails(info, flights_info, hotels_info, ci) ==
    LET rs == Research(search_queries(info["destination"]), None, ci, 1)
    IN [result |-> <<"itinerary text">>, results |-> rs, calls |-> CallsOf(rs),
        raised |-> FALSE]

\* backend.py:268-353: the text returned to the driver, the per-query
\* research results, the external calls in order, and whether an exception
\* reached the outer handler (backend.py:352-353).
create_itinerary(info, flights_info, hotels_info, ci) ==
    LET failed(rs, calls) ==
            [result |-> <<"Error creating itinerary">>, results |-> rs,
             calls |-> calls, raised |-> TRUE]
    IN
    IF ~({"destination", "start_date", "end_date", "budget_per_person"}
            \subseteq DOMAIN info)
    THEN failed(<<>>, <<>>)
    ELSE
    LET rs == Research(search_queries(info["destination"]), None, ci, 1)
        c1 == CallsOf(rs) \o <<LLMCall(<<"convert date">>, <<info["start_date"]>>)>>
        c2 == c1 \o <<LLMCall(<<"convert date">>, <<info["end_date"]>>)>>
        c3 == c2 \o <<Call("get_travel_destination",
                           <<ConvertedDate(info["start_date"]),
                             ConvertedDate(info["end_date"]),
                             <<info["budget_per_person"]>> >>)>>
        c4 == c3 \o <<LLMCall(<<"compose">>, flights_info.data \o hotels_info.data)>>
    IN
    IF ci.dates = "raises" THEN failed(rs, c1)
    ELSE IF ci.weather = "raises" THEN failed(rs, c3)
    ELSE IF ci.final = "raises" THEN failed(rs, c4)
    ELSE [result |-> <<"itinerary text">>, results |-> rs, calls |-> c4,
          raised |-> FALSE]

\* ------------------------------------------------------------ model client
\* llm.py. One process holds the class-level token cache (LLM._access_token,
\* LLM._expires_on), one client per session backend (backend.py:17) and the
\* client weather.py creates at import (weather.py:7).
Sessions == {"A", "B"}

WeatherClient == "weather"

Clients == Sessions \cup {WeatherClient}

\* llm.py:114 (and 19, 58)
max_retries == 5

\* No inference call in progress.
Idle ==
    [pc |-> "idle", session |-> "", client |-> "", prompt |-> <<>>,
     retries |-> 0, err |-> FALSE, response |-> <<>>, invoked |-> <<>>]

\* llm.py:9-33 for every client of the process: the cached token (numbered
\* by issue), whether the clock has passed _expires_on, the credential each
\* client object was built with, each client's conversation list, and the
\* sessions whose calls have appended to that list.
LLMInit ==
    [token |-> 1, expired |-> FALSE,
     credential |-> [c \in Clients |-> 1],
     conversation |-> [c \in Clients |-> <<>>],
     writers |-> [c \in Clients |-> {}],
     call |-> Idle]

\* Prompts as inference receives them: a string (backend.py:111, app.py:218)
\* or a message list (backend.py:49-50).
Prompts ==
    { [kind |-> "str", data |-> <<" ", "hi", " ">>],
      [kind |-> "list", data |-> <<"hi">>] }

\* ------------------------------------------------------------------ state
VARIABLES
    messages,              \* st.session_state.messages
    current_stage,         \* st.session_state.current_stage
    flights_info,          \* st.session_state.flights_info
    hotels_info,           \* st.session_state.hotels_info
    best_flights,          \* st.session_state.best_flights (set at app.py:124)
    best_hotels,           \* st.session_state.best_hotels (set at app.py:125)
    itinerary_ready,       \* st.session_state.itinerary_ready
    collected_info,        \* backend.collected_info
    conversation_history,  \* backend.conversation_history
    inputs,                \* chat inputs typed so far
    run,                   \* what the last script run did
    llm                    \* the model clients of the process (llm.py)

vars == <<messages, current_stage, flights_info, hotels_info, best_flights,
          best_hotels, itinerary_ready, collected_info, conversation_history,
          inputs, run, llm>>

Stages == <<"collecting_info", "searching_flights_hotels", "creating_itinerary",
            "completed">>

StageIndex(s) == CHOOSE i \in 1..Len(Stages) : Stages[i] = s

EmptyDict == [k \in {} |-> ""]

Message(role, content) == [role |-> role, content |-> content]

\* A user text as it is stored in a transcript.
InputText(u) == << <<"input", "", u>> >>

\* What a script run leaves for inspection: the handler that ran (op), the
\* extraction reply it read and the record extraction returned, the results
\* of get_missing_fields and is_info_complete, whether an exception left
\* the script, the external calls in order, what the providers and the
\* model answered during a search (env), and the selections handed to the
\* composer.
NoRun(op) ==
    [op |-> op, reply |-> <<>>, extracted |-> EmptyDict, missing |-> <<>>,
     complete |-> FALSE, raised |-> FALSE, calls |-> <<>>, env |-> <<>>,
     composed |-> <<>>]

\* app.py:14-27 and backend.py:16-20
Init ==
    /\ messages = <<>>
    /\ current_stage = "collecting_info"
    /\ flights_info = None
    /\ hotels_info = None
    /\ best_flights = Unset
    /\ best_hotels = Unset
    /\ itinerary_ready = FALSE
    /\ collected_info = EmptyDict
    /\ conversation_history = <<>>
    /\ inputs = 0
    /\ run = NoRun("init")
    /\ llm = LLMInit

\* app.py:151-153 with app.py:29-36 and backend.py:355-358
reset_session ==
    /\ collected_info' = EmptyDict
    /\ conversation_history' = <<>>
    /\ messages' = <<>>
    /\ current_stage' = "collecting_info"
    /\ flights_info' = None
    /\ hotels_info' = None
    /\ itinerary_ready' = FALSE
    /\ run' = NoRun("reset_session")
    /\ UNCHANGED <<best_flights, best_hotels, inputs, llm>>

\* app.py:177-193
Welcome ==
    /\ messages = <<>>
    /\ messages' = <<Message("assistant", <<"welcome">>)>>
    /\ run' = NoRun("welcome")
    /\ UNCHANGED <<current_stage, flights_info, hotels_info, best_flights,
                   best_hotels, itinerary_ready, collected_info,
                   conversation_history, inputs, llm>>

\* backend.py:87-96
field_names(f) ==
    CASE f = "source" -> "departure city/location"
      [] f = "destination" -> "destination city/country"
      [] f = "start_date" -> "start date of travel"
      [] f = "end_date" -> "end date of travel"
      [] f = "number_of_adults" -> "number of adults"
      [] f = "budget_per_person" -> "budget per person"
      [] f = "number_of_children" -> "number of children"
      [] f = "travel_style" -> "travel style (economy/balanced/luxury)"
      [] OTHER -> f

\* backend.py:81-99
get_missing_fields_message(info) ==
    LET missing == get_missing_fields(info)
    IN IF missing = <<>>
       THEN <<"All required information collected!">>
       ELSE <<"I still need the following information">>
            \o [i \in 1..Len(missing) |-> field_names(missing[i])]

\* An extraction that stores the parsed record in place of the collected one.
extract_info_from_input_Replace(info, history, user_input, reply) ==
    IF ScanStatus(reply) = "ok"
    THEN [returned |-> ScanObject(reply),
          collected_info |-> ScanObject(reply),
          conversation_history |-> history]
    ELSE [returned |-> EmptyDict,
          collected_info |-> info,
          conversation_history |-> history]

\* backend.py:22-71: the record returned, and the backend state afterwards.
extract_info_from_input(info, history, user_input, reply) ==
    IF ScanStatus(reply) = "ok"
    THEN LET parsed == ScanObject(reply)
         IN [returned |-> parsed,
             collected_info |-> Merge(info, parsed),
             conversation_history |->
                 history \o <<Message("user", InputText(user_input)),
                              Message("assistant", reply)>>]
    ELSE [returned |-> EmptyDict,
          collected_info |-> info,
          conversation_history |-> history]

\* app.py:207-211 with app.py:67-84
process_user_input ==
    /\ messages # <<>>
    /\ current_stage = "collecting_info"
    /\ inputs < MaxInputs
    /\ \E user_input \in UserInputs, reply \in ExtractionReplies \cup {RaisesReply} :
        \E e \in {extract_info_from_input(collected_info, conversation_history,
                                           user_input, reply)} :
        LET asked == Append(messages, Message("user", <<user_input>>))
            call == <<LLMCall(<<"extract">>, <<user_input>>)>>
        IN
        /\ inputs' = inputs + 1
        /\ IF reply = RaisesReply
           THEN /\ messages' = asked
                /\ run' = [NoRun("process_user_input") EXCEPT
                               !.raised = TRUE, !.calls = call]
                /\ UNCHANGED <<collected_info, conversation_history, current_stage>>
           ELSE /\ collected_info' = e.collected_info
                /\ conversation_history' = e.conversation_history
                /\ run' = [NoRun("process_user_input") EXCEPT
                               !.reply = reply, !.extracted = e.returned,
                               !.missing = get_missing_fields(e.collected_info),
                               !.complete = is_info_complete(e.collected_info),
                               !.calls = call]
                /\ IF is_info_complete(e.collected_info)
                   THEN /\ messages' = Append(asked,
                                Message("assistant", <<"Great! I have all the information I need.">>))
                        /\ current_stage' = "searching_flights_hotels"
                   ELSE /\ messages' = Append(asked,
                                Message("assistant", get_missing_fields_message(e.collected_info)))
                        /\ UNCHANGED current_stage
    /\ UNCHANGED <<flights_info, hotels_info, best_flights, best_hotels,
                   itinerary_ready, llm>>

\* "error" in flights_info (app.py:90, 110) and
\* isinstance(hotels_info, dict) and "error" in hotels_info (app.py:99)
HasErrorKey(x) == x.kind = "error"

\* app.py:196-198 with app.py:86-125
search_flights_and_hotels ==
    /\ messages # <<>>
    /\ current_stage = "searching_flights_hotels"
    /\ \E fi \in FlightInputs, hi \in HotelInputs :
        \E f \in {get_flights_info(collected_info, fi)},
           h \in {get_hotels_info(collected_info, hi)} :
        LET new_flights_info == IF HasErrorKey(f.result) THEN None ELSE f.result
            new_hotels_info == IF HasErrorKey(h.result) THEN None ELSE h.result
            rank_flights == TruthyValue(new_flights_info) /\ ~HasErrorKey(new_flights_info)
            rank_hotels == TruthyValue(new_hotels_info) /\ ~ErrorInStr(new_hotels_info)
        IN
        \E rf \in (IF rank_flights THEN RankReplies ELSE {RaisesReply}),
           rh \in (IF rank_hotels THEN RankReplies ELSE {RaisesReply}) :
            \E bf \in {IF rank_flights
                        THEN find_best_flight(collected_info, new_flights_info, rf)
                        ELSE Outcome(None, <<>>)},
               bh \in {IF rank_hotels
                        THEN get_best_hotels(collected_info, new_hotels_info, rh)
                        ELSE Outcome(None, <<>>)} :
            LET m1 == IF HasErrorKey(f.result)
                      THEN <<"Flight search error">> \o f.result.data
                      ELSE <<"Found flight options!">>
                m2 == IF HasErrorKey(h.result)
                      THEN <<"Hotel search error">> \o h.result.data
                      ELSE <<"Found hotel options!">>
                m3 == IF rank_flights /\ ~ErrorInStr(bf.result)
                      THEN <<Message("assistant", <<"Selected best flights based on your preferences!">>)>>
                      ELSE <<>>
                m4 == IF rank_hotels /\ ~ErrorInStr(bh.result)
                      THEN <<Message("assistant", <<"Selected best hotels based on your preferences!">>)>>
                      ELSE <<>>
            IN
            /\ flights_info' = new_flights_info
            /\ hotels_info' = new_hotels_info
            /\ messages' = messages
                   \o <<Message("assistant", m1), Message("assistant", m2)>>
                   \o m3 \o m4
                   \o <<Message("assistant", <<"Now let me create your personalized itinerary...">>)>>
            /\ current_stage' = "creating_itinerary"
            /\ best_flights' = bf.result
            /\ best_hotels' = bh.result
            /\ run' = [NoRun("search_flights_and_hotels") EXCEPT
                           !.calls = f.calls \o h.calls \o bf.calls \o bh.calls,
                           !.env = [flights |-> fi, hotels |-> hi,
                                    rank_flights |-> IF rank_flights THEN rf ELSE <<>>,
                                    rank_hotels |-> IF rank_hotels THEN rh ELSE <<>>]]
    /\ UNCHANGED <<itinerary_ready, collected_info, conversation_history, inputs,
                   llm>>

\* A composition step that sends the session back to collecting_info.
CreateItinerary_Restart ==
    /\ messages # <<>>
    /\ current_stage = "creating_itinerary"
    /\ messages' = Append(messages,
           Message("assistant", <<"Your Personalized Travel Itinerary is Ready!">>))
    /\ run' = [NoRun("create_itinerary") EXCEPT
                   !.composed = <<getattr(best_flights), getattr(best_hotels)>>]
    /\ itinerary_ready' = TRUE
    /\ current_stage' = "collecting_info"
    /\ UNCHANGED <<flights_info, hotels_info, best_flights, best_hotels,
                   collected_info, conversation_history, inputs, llm>>

\* app.py:200-203 with app.py:127-137
CreateItinerary ==
    /\ messages # <<>>
    /\ current_stage = "creating_itinerary"
    /\ \E ci \in ComposeInputs :
        \E c \in {create_itinerary(collected_info, getattr(best_flights),
                                   getattr(best_hotels), ci)} :
        /\ messages' = Append(messages,
               Message("assistant",
                       <<"Your Personalized Travel Itinerary is Ready!">> \o c.result))
        /\ run' = [NoRun("create_itinerary") EXCEPT
                       !.composed = <<getattr(best_flights), getattr(best_hotels)>>,
                       !.calls = c.calls, !.env = ci]
    /\ itinerary_ready' = TRUE
    /\ current_stage' = "completed"
    /\ UNCHANGED <<flights_info, hotels_info, best_flights, best_hotels,
                   collected_info, conversation_history, inputs, llm>>

\* app.py:206: the condition under which the chat input is offered.
chat_input_accepted ==
    \/ current_stage \in {"collecting_info"}
    \/ (current_stage = "completed" /\ itinerary_ready)

FollowUpReplies == {<<"answer">>, Raises}

\* app.py:206-220, the branch for the completed stage
follow_up ==
    /\ messages # <<>>
    /\ current_stage = "completed"
    /\ itinerary_ready
    /\ inputs < MaxInputs
    /\ \E prompt \in UserInputs, response \in FollowUpReplies :
        LET asked == Append(messages, Message("user", <<prompt>>))
            call == <<LLMCall(<<"follow up">>, <<prompt>>)>>
        IN
        /\ messages' = IF response = Raises
                       THEN asked
                       ELSE Append(asked, Message("assistant", response))
        /\ run' = [NoRun("follow_up") EXCEPT
                       !.raised = (response = Raises), !.calls = call]
    /\ inputs' = inputs + 1
    /\ UNCHANGED <<current_stage, flights_info, hotels_info, best_flights,
                   best_hotels, itinerary_ready, collected_info,
                   conversation_history, llm>>

Next ==
    \/ reset_session
    \/ Welcome
    \/ process_user_input
    \/ search_flights_and_hotels
    \/ CreateItinerary
    \/ follow_up

Spec == Init /\ [][Next]_vars

\* ------------------------------------------------ the session left alone
\* A session in the state process_user_input leaves when the first user
\* message completes the record (app.py:77-80), and from then on without
\* the user: no chat input and no reset.
InitComplete ==
    /\ \E user_input \in UserInputs, reply \in ExtractionReplies :
        \E e \in {extract_info_from_input(EmptyDict, <<>>, user_input, reply)} :
        /\ is_info_complete(e.collected_info)
        /\ collected_info = e.collected_info
        /\ conversation_history = e.conversation_history
        /\ messages =
              <<Message("assistant", <<"welcome">>),
                Message("user", <<user_input>>),
                Message("assistant", <<"Great! I have all the information I need.">>)>>
        /\ run = [NoRun("process_user_input") EXCEPT
                      !.reply = reply, !.extracted = e.returned,
                      !.complete = TRUE,
                      !.calls = <<LLMCall(<<"extract">>, <<user_input>>)>>]
    /\ current_stage = "searching_flights_hotels"
    /\ flights_info = None
    /\ hotels_info = None
    /\ best_flights = Unset
    /\ best_hotels = Unset
    /\ itinerary_ready = FALSE
    /\ inputs = 1
    /\ llm = LLMInit

NextUnattended ==
    \/ search_flights_and_hotels
    \/ CreateItinerary

\* The script reruns itself after every stage change (st.rerun at
\* app.py:80, 198, 203), so a session in searching_flights_hotels or
\* creating_itinerary runs the handler of that stage without waiting for
\* the user.
SpecUnattended ==
    /\ InitComplete
    /\ [][NextUnattended]_vars
    /\ WF_vars(search_flights_and_hotels)
    /\ WF_vars(CreateItinerary)

\* ------------------------------------------- destination recommendation
\* weather.py. Dates are day numbers relative to the current date (day 0);
\* the clock is the hour of the current day at which the check runs.
max_days == 14

\* Start dates around the forecast horizon, the day before today through
\* two days past the horizon.
DayOffsets == (0 - 1)..(max_days + 2)

\* datetime.now() at midnight sharp and later in the day.
ClockHours == {0, 10}

\* The model's destination suggestions (weather.py:40-43).
Suggestions == {<<"Goa, India">>, <<"Goa, India", "Leh, India">>}

\* weather.py:45-52: strptime gives the start date at 00:00, datetime.now()
\* carries the time of day, and timedelta.days is the floor of the
\* difference in days.
check_date_within_forecast_range(start_day, hour) ==
    LET days_difference == (start_day * 24 - hour) \div 24
    IN 0 <= days_difference /\ days_difference <= max_days

\* weather.py:116-172 with get_weather_forecast (weather.py:56-112): the
\* value returned and the external calls in order. api tells whether the
\* forecast requests succeed.
get_travel_destination(start_day, hour, suggested_places, api) ==
    LET c1 == <<LLMCall(<<"suggest destinations">>, <<>>)>>
        lookups == [i \in 1..Len(suggested_places) |->
                       Call("weather_api", <<<<suggested_places[i]>>>>)]
    IN
    IF ~check_date_within_forecast_range(start_day, hour)
    THEN Outcome([kind |-> "list", data |-> suggested_places], c1)
    ELSE IF api = "ok"
    THEN Outcome([kind |-> "dict", data |-> <<"best of re-ranked">>],
                 c1 \o lookups \o <<LLMCall(<<"re-rank">>, suggested_places)>>)
    ELSE Outcome([kind |-> "list", data |-> suggested_places], c1 \o lookups)

\* A recommendation is asked for a start date and at a time of day.
InitWeather ==
    /\ \E start_day \in DayOffsets, hour \in ClockHours,
          suggested_places \in Suggestions, api \in {"ok", "fails"} :
          run = [NoRun("init") EXCEPT
                     !.env = [start_day |-> start_day, hour |-> hour,
                              suggested_places |-> suggested_places,
                              api |-> api]]
    /\ messages = <<>>
    /\ current_stage = "creating_itinerary"
    /\ flights_info = None
    /\ hotels_info = None
    /\ best_flights = None
    /\ best_hotels = None
    /\ itinerary_ready = FALSE
    /\ collected_info = EmptyDict
    /\ conversation_history = <<>>
    /\ inputs = 0
    /\ llm = LLMInit

\* backend.py:314
RecommendDestination ==
    /\ run.op = "init"
    /\ \E d \in {get_travel_destination(run.env.start_day, run.env.hour,
                                         run.env.suggested_places, run.env.api)} :
          run' = [NoRun("get_travel_destination") EXCEPT
                      !.env = run.env, !.calls = d.calls,
                      !.composed = <<d.result>>]
    /\ UNCHANGED <<messages, current_stage, flights_info, hotels_info,
                   best_flights, best_hotels, itinerary_ready, collected_info,
                   conversation_history, inputs, llm>>

NextWeather == RecommendDestination

SpecWeather == InitWeather /\ [][NextWeather]_vars

\* ------------------------------------------------- completeness on records
\* The completeness check applied to an arbitrary record: every subset of
\* the required fields, each present field holding a non-empty string, an
\* empty string or the number zero.
RecordValues == {"s:Goa", "s:", "n:0"}

Records == UNION {[S -> RecordValues] : S \in SUBSET RequiredSet}

InitRecord ==
    /\ collected_info \in Records
    /\ messages = <<>>
    /\ current_stage = "collecting_info"
    /\ flights_info = None
    /\ hotels_info = None
    /\ best_flights = Unset
    /\ best_hotels = Unset
    /\ itinerary_ready = FALSE
    /\ conversation_history = <<>>
    /\ inputs = 0
    /\ run = NoRun("init")
    /\ llm = LLMInit

\* backend.py:73-79 applied to the record
CheckCompleteness ==
    /\ run.op = "init"
    /\ run' = [NoRun("check_completeness") EXCEPT
                   !.missing = get_missing_fields(collected_info),
                   !.complete = is_info_complete(collected_info)]
    /\ UNCHANGED <<messages, current_stage, flights_info, hotels_info,
                   best_flights, best_hotels, itinerary_ready, collected_info,
                   conversation_history, inputs, llm>>

NextRecord == CheckCompleteness

SpecRecord == InitRecord /\ [][NextRecord]_vars

\* ----------------------------------------------------- one inference call
\* llm.py:112-115: a session calls inference on its own client or, through
\* get_travel_destination, on the client of weather.py. The clock may have
\* passed the token's expiry since the last call.
inference_begin ==
    /\ llm.call.pc = "idle"
    /\ inputs < MaxInputs
    /\ \E session \in Sessions, client \in Clients, prompt \in Prompts,
          expires \in BOOLEAN :
        /\ client \in {session, WeatherClient}
        /\ llm' = [llm EXCEPT
                     !.expired = llm.expired \/ expires,
                     !.call = [pc |-> "loop", session |-> session,
                               client |-> client, prompt |-> prompt,
                               retries |-> 0, err |-> TRUE, response |-> <<>>,
                               invoked |-> <<>>]]
    /\ inputs' = inputs + 1
    /\ run' = NoRun("inference_begin")
    /\ UNCHANGED <<messages, current_stage, flights_info, hotels_info,
                   best_flights, best_hotels, itinerary_ready, collected_info,
                   conversation_history>>

\* llm.py:116-139: one pass of the retry loop. update_access_token
\* (llm.py:55-68) either stores a new token or, when its own five attempts
\* fail, raises at line 67; client.invoke answers or raises.
inference_attempt ==
    /\ llm.call.pc = "loop"
    /\ llm.call.err
    /\ llm.call.retries < max_retries
    /\ \E refresh \in (IF llm.expired THEN {"ok", "fails"} ELSE {"none"}),
          outcome \in {"ok", "raises"} :
        LET call == llm.call
            stripped == IF call.prompt.kind = "str"
                        THEN strip(call.prompt.data)
                        ELSE call.prompt.data
            token == IF refresh = "ok" THEN llm.token + 1 ELSE llm.token
            made == Append(call.invoked,
                           [credential |-> llm.credential[call.client],
                            token |-> token, outcome |-> outcome])
            expired == IF refresh = "ok" THEN FALSE ELSE llm.expired
        IN
        IF refresh = "fails"
        THEN llm' = [llm EXCEPT !.call.retries = call.retries + 1]
        ELSE IF outcome = "raises"
        THEN llm' = [llm EXCEPT !.token = token, !.expired = expired,
                                !.call.invoked = made,
                                !.call.retries = call.retries + 1]
        ELSE llm' = [llm EXCEPT
                       !.token = token, !.expired = expired,
                       !.call.invoked = made,
                       !.call.response = <<"reply">>,
                       !.call.err = FALSE,
                       !.conversation[call.client] =
                           @ \o <<Message("user", stripped),
                                  Message("agent", <<"reply">>)>>,
                       !.writers[call.client] = @ \cup {call.session}]
    /\ run' = NoRun("inference_attempt")
    /\ UNCHANGED <<messages, current_stage, flights_info, hotels_info,
                   best_flights, best_hotels, itinerary_ready, collected_info,
                   conversation_history, inputs>>

\* llm.py:116 and 140: the loop is left and response.content is returned;
\* reading response when no attempt bound it raises UnboundLocalError.
inference_return ==
    /\ llm.call.pc = "loop"
    /\ ~(llm.call.err /\ llm.call.retries < max_retries)
    /\ LET call == llm.call
           result == IF call.response # <<>>
                     THEN [kind |-> "text", data |-> call.response]
                     ELSE [kind |-> "UnboundLocalError", data |-> <<"response">>]
       IN run' = [NoRun("inference") EXCEPT
                      !.raised = (call.response = <<>>),
                      !.env = [session |-> call.session, client |-> call.client,
                               invoked |-> call.invoked,
                               retries |-> call.retries, result |-> result]]
    /\ llm' = [llm EXCEPT !.call = Idle]
    /\ UNCHANGED <<messages, current_stage, flights_info, hotels_info,
                   best_flights, best_hotels, itinerary_ready, collected_info,
                   conversation_history, inputs>>

NextLLM ==
    \/ inference_begin
    \/ inference_attempt
    \/ inference_return

SpecLLM == Init /\ [][NextLLM]_vars

\* ================================================================= claims

\* C1: the stage only stays, moves one step forward in the order
\* collecting_info, searching_flights_hotels, creating_itinerary, completed,
\* or is returned to collecting_info by a full reset.
C1_StageForwardOnly ==
    [][ \/ current_stage' = current_stage
        \/ StageIndex(current_stage') = StageIndex(current_stage) + 1
        \/ run'.op = "reset_session" /\ current_stage' = "collecting_info" ]_vars

C1_Witness == current_stage = "completed" /\ run.op = "create_itinerary"

\* C2: after a full reset the session is in its initial state: record and
\* both transcripts empty, stage collecting_info, cached search results and
\* cached best-flight / best-hotel selections cleared.
C2_ResetRestoresInitialState ==
    run.op = "reset_session" =>
        /\ collected_info = EmptyDict
        /\ messages = <<>>
        /\ conversation_history = <<>>
        /\ current_stage = "collecting_info"
        /\ flights_info = None
        /\ hotels_info = None
        /\ getattr(best_flights) = None
        /\ getattr(best_hotels) = None

\* C3: a required field holding a truthy value keeps that very value through
\* an extraction whose record omits the field or gives it a falsy value, and
\* stays set through every step that is not a reset.
C3_MergeMonotonic ==
    [][ \A f \in RequiredSet :
          (f \in DOMAIN collected_info /\ Truthy(collected_info[f])) =>
            /\ run'.op # "reset_session" =>
                 (f \in DOMAIN collected_info' /\ Truthy(collected_info'[f]))
            /\ ( /\ run'.op = "process_user_input"
                 /\ (f \notin DOMAIN run'.extracted \/ ~Truthy(run'.extracted[f])) )
               => (f \in DOMAIN collected_info' /\ collected_info'[f] = collected_info[f])
      ]_vars

C3_Witness ==
    /\ run.op = "process_user_input"
    /\ \E f \in RequiredSet :
        /\ f \in DOMAIN collected_info
        /\ f \in DOMAIN run.extracted
        /\ ~Truthy(run.extracted[f])

\* C4: get_missing_fields returns exactly the required fields that are
\* absent from the record or hold a falsy value, each once, in the declared
\* order of required_fields.
C4_MissingExactInOrder ==
    run.op = "check_completeness" =>
        LET m == run.missing
            Position(f) == CHOOSE i \in 1..Len(required_fields) : required_fields[i] = f
        IN
        /\ {m[i] : i \in 1..Len(m)} =
              {f \in RequiredSet :
                  f \notin DOMAIN collected_info \/ collected_info[f] \in Falsy}
        /\ \A i, j \in 1..Len(m) : i < j => Position(m[i]) < Position(m[j])

C4_Witness ==
    /\ run.op = "check_completeness"
    /\ Len(run.missing) = 3
    /\ \E f \in DOMAIN collected_info : collected_info[f] \in Falsy
    /\ \E f \in RequiredSet : f \notin DOMAIN collected_info

\* C5: is_info_complete is true if and only if get_missing_fields returns
\* the empty list.
C5_CompleteIffNoneMissing ==
    run.op = "check_completeness" => (run.complete <=> run.missing = <<>>)

C5_Witness ==
    /\ run.op = "check_completeness"
    /\ DOMAIN collected_info = RequiredSet
    /\ ~run.complete

\* C6: an extraction reply with no decodable object between its first "{"
\* and last "}" yields the empty record, changes neither collected_info nor
\* conversation_history nor the stage, and the driver appends the user
\* message followed by the missing-fields message.
C6_DecodeFailureIsSilent ==
    [][ (run'.op = "process_user_input" /\ ~run'.raised /\ run'.reply \in BadReplies) =>
          /\ run'.extracted = EmptyDict
          /\ collected_info' = collected_info
          /\ conversation_history' = conversation_history
          /\ current_stage' = current_stage
          /\ \E u \in UserInputs :
                messages' = messages \o
                    <<Message("user", <<u>>),
                      Message("assistant", get_missing_fields_message(collected_info))>>
          /\ messages'[Len(messages')].content[1] = "I still need the following information"
      ]_vars

C6_Witness ==
    /\ run.op = "process_user_input"
    /\ ~run.raised
    /\ run.reply \in BadReplies
    /\ "destination" \in DOMAIN collected_info
    /\ conversation_history # <<>>

\* C7: a message from which the model reports all eight fields, the children
\* count being zero, makes one extraction call, completes the record and
\* advances the stage to searching_flights_hotels.
AllEightReplies ==
    {Braced(AllEight(cv)) : cv \in ChildValues}
    \cup {<<TXT>> \o Braced(AllEight("s:0")) \o <<TXT>>}

C7_AllEightAdvances ==
    (run.op = "process_user_input" /\ run.reply \in AllEightReplies) =>
        /\ Len(run.calls) = 1
        /\ run.complete
        /\ current_stage = "searching_flights_hotels"

\* C8: when the first user message yields only a destination, the record
\* holds only destination, the stage stays collecting_info, and the missing
\* fields are the other seven in the declared order.
DestinationOnly ==
    /\ run.op = "process_user_input"
    /\ ~run.raised
    /\ Len(messages) = 3
    /\ {k \in DOMAIN run.extracted : Truthy(run.extracted[k])} = {"destination"}

\* The order the claim states.
C8_StatedOrder ==
    DestinationOnly =>
        /\ DOMAIN collected_info = {"destination"}
        /\ current_stage = "collecting_info"
        /\ run.missing = <<"source", "start_date", "end_date", "number_of_adults",
                           "number_of_children", "budget_per_person", "travel_style">>

\* C8 (amended): the other seven are reported in the order source,
\* start_date, end_date, number_of_adults, budget_per_person,
\* number_of_children, travel_style.
C8_DeclaredOrder ==
    DestinationOnly =>
        /\ DOMAIN collected_info = {"destination"}
        /\ current_stage = "collecting_info"
        /\ run.missing = <<"source", "start_date", "end_date", "number_of_adults",
                           "budget_per_person", "number_of_children", "travel_style">>

C8_Witness == DestinationOnly /\ Len(run.reply) = 4

\* C9: when the airport-code reply for the source is N/A in any letter case
\* with any surrounding whitespace, the flight error names the source, no
\* flight-provider call is made, the code prompt is sent once, and the hotel
\* search of the same run still happens and its result is kept.
C9_NoAirportForSource ==
    [][ (run'.op = "search_flights_and_hotels" /\ run'.env.flights.src \in NAReplies) =>
          LET n == Len(messages)
              source_asked == LLMCall(<<"airport code">>, <<collected_info["source"]>>)
          IN
          /\ messages'[n + 1] =
                Message("assistant",
                        <<"Flight search error", "No airport found for source",
                          collected_info["source"]>>)
          /\ flights_info' = None
          /\ \A i \in 1..Len(run'.calls) : run'.calls[i].fn # "search_flights"
          /\ Cardinality({i \in 1..Len(run'.calls) : run'.calls[i] = source_asked}) = 1
          /\ messages'[n + 2].content[1] \in {"Found hotel options!", "Hotel search error"}
          /\ (\E i \in 1..Len(run'.calls) : run'.calls[i].fn = "search_hotels")
                => (\/ run'.env.hotels.provider = "raises"
                    \/ hotels_info' = [kind |-> "list", data |-> run'.env.hotels.hotels])
      ]_vars

C9_Witness ==
    /\ run.op = "search_flights_and_hotels"
    /\ run.env.flights.src = <<" ", "n", "/", "A", " ">>
    /\ hotels_info = [kind |-> "list", data |-> <<"Taj Fort Aguada">>]

\* C10: when the flight-ranking reply cannot be parsed, the ranking step
\* returns an error-tagged result, the composer receives a null flight
\* selection, and the itinerary message is still produced.
UnparsableRankReplies == {<<TXT>>, <<LB, TXT, RB>>, <<RB, LB>>}

C10_ParseFailureGivesNullSelection ==
    [][ ( /\ run.op = "search_flights_and_hotels"
          /\ run.env.rank_flights \in UnparsableRankReplies
          /\ run'.op = "create_itinerary" ) =>
          /\ best_flights.kind = "error"
          /\ run'.composed[1] = None
          /\ messages'[Len(messages')].content[1]
                = "Your Personalized Travel Itinerary is Ready!"
      ]_vars

\* C11: flight search and hotel search fail independently. When the flight
\* search reports an error the hotel search of the same run is still made and
\* its result stored; when the hotel search reports an error the flight
\* result stays stored; each error is an assistant message of its own, in
\* the order flight, hotel; and the composer that runs next receives None
\* for the side whose search failed.
C11_SearchesFailIndependently ==
    [][ /\ run'.op = "search_flights_and_hotels" =>
             \E f \in {get_flights_info(collected_info, run'.env.flights).result},
                h \in {get_hotels_info(collected_info, run'.env.hotels).result} :
               LET n == Len(messages) IN
               /\ HasErrorKey(f) =>
                    /\ messages'[n + 1] =
                          Message("assistant", <<"Flight search error">> \o f.data)
                    /\ hotels_info' = (IF HasErrorKey(h) THEN None ELSE h)
                    /\ best_flights' = None
               /\ HasErrorKey(h) =>
                    /\ messages'[n + 2] =
                          Message("assistant", <<"Hotel search error">> \o h.data)
                    /\ flights_info' = (IF HasErrorKey(f) THEN None ELSE f)
                    /\ best_hotels' = None
        /\ (run.op = "search_flights_and_hotels" /\ run'.op = "create_itinerary") =>
               /\ flights_info = None => run'.composed[1] = None
               /\ hotels_info = None => run'.composed[2] = None
      ]_vars

C11_Witness ==
    /\ run.op = "create_itinerary"
    /\ flights_info = None
    /\ hotels_info = [kind |-> "list", data |-> <<"Taj Fort Aguada">>]
    /\ run.composed[1] = None
    /\ run.composed[2].kind = "dict"
    /\ \E i \in 1..Len(messages) : messages[i].content[1] = "Flight search error"

C13_TextOrExhaustedRetries ==
    run.op = "inference" =>
        LET made == run.env.invoked IN
        /\ Len(made) <= max_retries
        /\ \A i \in 1..Len(made) : made[i].outcome = "ok" => i = Len(made)
        /\ run.env.result.kind \in {"text", "RetriesExhausted"}
        /\ run.env.result.kind = "text" <=>
              (made # <<>> /\ made[Len(made)].outcome = "ok")

\* C14: no failure of an external call escapes a script run of the driver
\* as an exception: every run that handled a user message or a stage ends
\* normally with a visible assistant message as the last entry of the
\* transcript, and a collecting or completed session still takes input.
C14_NoFailureEscapes ==
    run.op \in {"process_user_input", "search_flights_and_hotels",
                "create_itinerary", "follow_up"} =>
        /\ ~run.raised
        /\ messages[Len(messages)].role = "assistant"
        /\ current_stage = "completed" => itinerary_ready

\* C15: two sessions of one process share no mutable state other than the
\* access-token cache: no client's conversation list is written by the
\* calls of more than one session.
C15_SessionsShareOnlyTokenCache ==
    \A c \in Clients : Cardinality(llm.writers[c]) <= 1

\* C16: in one composition each of the five research queries gets one web
\* search, one page fetch of the first result link, and one model call that
\* extracts facts for that query, also when the page fetch failed.
C16_OneSearchFetchAndModelCallPerQuery ==
    run.op = "create_itinerary" =>
        LET queries == search_queries(collected_info["destination"])
            calls == run.calls
            Count(P(_)) == Cardinality({i \in 1..Len(calls) : P(calls[i])})
        IN
        /\ Len(queries) = NumQueries
        /\ \A q \in 1..NumQueries :
            LET Searched(c) == c = Call("google_search", <<queries[q]>>)
                Extracted(c) ==
                    /\ c.fn = "llm"
                    /\ c.args[1] = <<"extract facts">>
                    /\ Len(c.args[2]) >= Len(queries[q])
                    /\ SubSeq(c.args[2], 1, Len(queries[q])) = queries[q]
            IN
            /\ Count(Searched) = 1
            /\ Count(Extracted) = 1
        /\ LET Fetched(c) == c.fn = "get_data_from_url"
           IN Count(Fetched) = NumQueries

\* C17: in collecting_info every user message triggers exactly one
\* extraction call; when the record is still incomplete after it, the run
\* appends the user message and exactly one missing-fields message and the
\* stage stays collecting_info, however often this has happened before.
C17_OneExtractionOneMissingMessage ==
    [][ run'.op = "process_user_input" =>
          /\ current_stage = "collecting_info"
          /\ \E u \in UserInputs :
              /\ run'.calls = <<LLMCall(<<"extract">>, <<u>>)>>
              /\ ~is_info_complete(collected_info') =>
                   /\ messages' = messages \o
                         <<Message("user", <<u>>),
                           Message("assistant",
                                   get_missing_fields_message(collected_info'))>>
                   /\ current_stage' = "collecting_info"
      ]_vars

\* C18: a session whose record became complete, and is therefore in
\* searching_flights_hotels, reaches completed without further input from
\* the user: the search run always sets creating_itinerary and the
\* composition run always sets completed, whatever the searches, rankings
\* and composition report.
C18_CompleteRecordReachesCompleted ==
    /\ [][ /\ run'.op = "search_flights_and_hotels" =>
                current_stage' = "creating_itinerary"
           /\ run'.op = "create_itinerary" => current_stage' = "completed" ]_vars
    /\ (is_info_complete(collected_info) /\ current_stage # "completed")
          ~> (current_stage = "completed")

C18_Witness ==
    /\ current_stage = "completed"
    /\ run.op = "create_itinerary"
    /\ flights_info = None
    /\ hotels_info = None
    /\ "raises" \in {run.env.dates, run.env.weather, run.env.final}

\* C19: a follow-up question in completed makes one direct model call and
\* appends one user and one assistant message; the stage, collected_info,
\* conversation_history, the cached selections and the messages already in
\* the transcript (the itinerary among them) stay as they were.
C19_FollowUpAppendsTwoMessages ==
    [][ run'.op = "follow_up" =>
          /\ current_stage = "completed"
          /\ \E u \in UserInputs :
              /\ run'.calls = <<LLMCall(<<"follow up">>, <<u>>)>>
              /\ Len(messages') = Len(messages) + 2
              /\ SubSeq(messages', 1, Len(messages)) = messages
              /\ messages'[Len(messages) + 1] = Message("user", <<u>>)
              /\ messages'[Len(messages) + 2].role = "assistant"
          /\ UNCHANGED <<current_stage, collected_info, conversation_history,
                         best_flights, best_hotels, flights_info, hotels_info,
                         itinerary_ready>>
      ]_vars

\* C20: collected_info changes only in an extraction, where it becomes the
\* merge of the old record with the extracted one, and in a reset, where it
\* becomes empty; the search run (flight search, hotel search, both
\* rankings), the composition and a follow-up leave it as it is.
C20_RecordChangedOnlyByMergeAndReset ==
    [][ /\ run'.op \in {"search_flights_and_hotels", "create_itinerary",
                        "follow_up", "welcome"} =>
              collected_info' = collected_info
        /\ run'.op = "reset_session" => collected_info' = EmptyDict
        /\ run'.op = "process_user_input" =>
              collected_info' = Merge(collected_info, run'.extracted)
        /\ collected_info' = EmptyDict =>
              (collected_info = EmptyDict \/ run'.op = "reset_session")
      ]_vars

C20_Witness ==
    /\ run.op = "follow_up"
    /\ is_info_complete(collected_info)
    /\ Len(messages) > 8

\* C21: conversation_history only grows between resets. An extraction
\* leaves it unchanged when the reply cannot be decoded, and otherwise
\* appends exactly two entries, the raw user input with role user and the
\* raw reply with role assistant; so its length is even and the roles
\* alternate. A decoded reply whose values are all empty appends the two
\* entries and changes no field.
AllEmptyReplies == {Braced(<<>>), Braced(AllWith("s:"))}

C21_HistoryAppendOnly ==
    [][ LET old == conversation_history
            new == conversation_history'
        IN
        /\ run'.op # "reset_session" =>
              (Len(new) >= Len(old) /\ SubSeq(new, 1, Len(old)) = old)
        /\ run'.op # "process_user_input" =>
              (new = old \/ run'.op = "reset_session")
        /\ run'.op = "process_user_input" =>
              \/ new = old /\ (run'.raised \/ ScanStatus(run'.reply) # "ok")
              \/ /\ ScanStatus(run'.reply) = "ok"
                 /\ \E u \in UserInputs :
                       new = old \o <<Message("user", InputText(u)),
                                      Message("assistant", run'.reply)>>
        /\ (run'.op = "process_user_input" /\ run'.reply \in BadReplies) => new = old
        /\ (run'.op = "process_user_input" /\ run'.reply \in AllEmptyReplies) =>
              (Len(new) = Len(old) + 2 /\ collected_info' = collected_info)
        /\ Len(new) % 2 = 0
        /\ \A i \in 1..Len(new) :
              new[i].role = (IF i % 2 = 1 THEN "user" ELSE "assistant")
      ]_vars

C21_Witness ==
    /\ run.op = "process_user_input"
    /\ run.reply = Braced(AllWith("s:"))
    /\ Len(conversation_history) = 4
    /\ collected_info # EmptyDict

\* C22: in every reachable state the keys of collected_info are among the
\* eight required field names; a key of the reply that is not a required
\* field is never added.
C22_KeysAreRequiredFields == DOMAIN collected_info \subseteq RequiredSet

\* C23: credential refresh is transparent. Every invocation of the model
\* is made while the cached token is not expired, and with the credential
\* that is cached at that moment: after a refresh, that invocation and the
\* later ones use the refreshed token, not the one it replaced.
C23_InvokedWithRefreshedCredential ==
    /\ run.op = "inference" =>
          \A i \in 1..Len(run.env.invoked) :
              run.env.invoked[i].credential = run.env.invoked[i].token
    /\ llm.call.pc = "loop" =>
          \A i \in 1..Len(llm.call.invoked) :
              llm.call.invoked[i].credential = llm.call.invoked[i].token

\* C24: a flight search that succeeds has called the flight provider
\* exactly twice: first from the source code to the destination code on the
\* converted start date, then from the destination code to the source code
\* on the converted end date. A provider call that raises gives an
\* error-tagged result, shown as a flight-search error, and no exception.
C24_TwoProviderCallsPerFlightSearch ==
    [][ run'.op = "search_flights_and_hotels" =>
          LET fi == run'.env.flights
              calls == run'.calls
              provider == SelectSeq(calls, LAMBDA c : c.fn = "search_flights")
              trimmed(code) == SelectSeq(code, LAMBDA ch : ch # " ")
          IN
          /\ flights_info'.kind = "flights" =>
                provider =
                  <<Call("search_flights",
                         <<trimmed(fi.src), trimmed(fi.dst),
                           <<collected_info["start_date"], "as YYYY-MM-DD">> >>),
                    Call("search_flights",
                         <<trimmed(fi.dst), trimmed(fi.src),
                           <<collected_info["end_date"], "as YYYY-MM-DD">> >>)>>
          /\ ( /\ fi.provider \in {"raises_outbound", "raises_return"}
               /\ fi.dates = "ok" ) =>
                /\ ~run'.raised
                /\ flights_info' = None
                /\ messages'[Len(messages) + 1] =
                      Message("assistant",
                              <<"Flight search error", "Error getting flight information">>)
      ]_vars

C24_Witness ==
    /\ run.op = "search_flights_and_hotels"
    /\ flights_info.kind = "flights"
    /\ run.env.flights.src = <<" ", "d", "e", "l", " ">>
    /\ Len(SelectSeq(run.calls, LAMBDA c : c.fn = "search_flights")) = 2

\* C25: for a declared child count n >= 0 the hotel request carries a
\* children_ages list of exactly n entries, each the age 8, separated by
\* commas with none at the end, and no children_ages parameter when n = 0;
\* a child count that is not an integer gives an error-tagged hotel result
\* and no exception.
C25_ChildAgesOnePerChild ==
    [][ run'.op = "search_flights_and_hotels" =>
          LET v == collected_info["number_of_children"]
              requests == SelectSeq(run'.calls, LAMBDA c : c.fn = "search_hotels")
              AgesFor(ages, n) ==
                  /\ Len(ages) = (IF n = 0 THEN 0 ELSE 2 * n - 1)
                  /\ \A i \in 1..Len(ages) :
                        ages[i] = (IF i % 2 = 1 THEN "8" ELSE ",")
          IN
          /\ Len(requests) <= 1
          /\ v \notin IntLiterals =>
                /\ requests = <<>>
                /\ ~run'.raised
                /\ hotels_info' = None
                /\ messages'[Len(messages) + 2] =
                      Message("assistant",
                              <<"Hotel search error", "Error getting hotel information">>)
          /\ \A i \in 1..Len(requests) :
                LET args == requests[i].args IN
                /\ v \in IntLiterals
                /\ args[5] = <<ToString(IntOf(v))>>
                /\ IF IntOf(v) = 0
                   THEN Len(args) = 5
                   ELSE Len(args) = 6 /\ AgesFor(args[6], IntOf(v))
          /\ \A x \in IntLiterals : AgesFor(ChildrenAges(IntOf(x)), IntOf(x))
      ]_vars

C25_Witness ==
    /\ run.op = "search_flights_and_hotels"
    /\ collected_info["number_of_children"] = "s:2"
    /\ \E i \in 1..Len(run.calls) :
          /\ run.calls[i].fn = "search_hotels"
          /\ Len(run.calls[i].args) = 6
          /\ run.calls[i].args[6] = <<"8", ",", "8">>

\* C26: get_travel_destination looks up the weather once per suggested
\* place and asks the model to re-rank exactly when the start date lies 0
\* to 14 days after the current date, both ends included; for every other
\* start date it makes no lookup and no re-rank call and returns the raw
\* suggestions.
C26_ForecastHorizonZeroToFourteen ==
    run.op = "get_travel_destination" =>
        LET in_horizon == 0 <= run.env.start_day /\ run.env.start_day <= max_days
            lookups == SelectSeq(run.calls, LAMBDA c : c.fn = "weather_api")
            reranks == SelectSeq(run.calls,
                           LAMBDA c : c.fn = "llm" /\ c.args[1] = <<"re-rank">>)
        IN
        /\ in_horizon =>
              /\ Len(lookups) = Len(run.env.suggested_places)
              /\ Len(reranks) = 1
        /\ ~in_horizon =>
              /\ lookups = <<>>
              /\ reranks = <<>>
              /\ run.composed[1] = [kind |-> "list", data |-> run.env.suggested_places]

\* C27: whenever the stage is searching_flights_hotels, creating_itinerary
\* or completed, each of the eight required fields is present in
\* collected_info with a truthy value.
C27_RecordCompleteAfterCollecting ==
    current_stage # "collecting_info" =>
        \A f \in RequiredSet :
            f \in DOMAIN collected_info /\ Truthy(collected_info[f])

C27_Witness ==
    /\ current_stage = "completed"
    /\ run.op = "follow_up"
    /\ \A f \in RequiredSet : f \in DOMAIN collected_info

\* C28: in every reachable state itinerary_ready is true exactly when the
\* stage is completed; so chat input is accepted exactly in collecting_info
\* and completed, and no run handles a chat input while the stage is
\* searching_flights_hotels or creating_itinerary.
C28_ReadyIffCompleted ==
    /\ [](/\ itinerary_ready <=> current_stage = "completed"
          /\ chat_input_accepted <=>
                current_stage \in {"collecting_info", "completed"})
    /\ [][ run'.op \in {"process_user_input", "follow_up"} =>
              current_stage \in {"collecting_info", "completed"} ]_vars

C28_Witness ==
    /\ run.op = "reset_session"
    /\ ~itinerary_ready
    /\ best_flights # Unset
    /\ chat_input_accepted

\* C29: the flight and hotel selections handed to the composer are the
\* ones the search run of the same trip computed: every composition run
\* directly follows a search run, that search run stored what its two
\* ranking steps returned (None for a side it did not rank), and the
\* composer receives exactly those two values, also after a reset and a
\* new trip.
C29_ComposerGetsCurrentSelections ==
    [][ /\ run'.op = "search_flights_and_hotels" =>
              /\ best_flights' =
                    (IF run'.env.rank_flights # <<>>
                     THEN find_best_flight(collected_info, flights_info',
                                           run'.env.rank_flights).result
                     ELSE None)
              /\ best_hotels' =
                    (IF run'.env.rank_hotels # <<>>
                     THEN get_best_hotels(collected_info, hotels_info',
                                          run'.env.rank_hotels).result
                     ELSE None)
        /\ run'.op = "create_itinerary" =>
              /\ run.op = "search_flights_and_hotels"
              /\ run'.composed = <<best_flights, best_hotels>>
      ]_vars

C29_Witness ==
    /\ run.op = "create_itinerary"
    /\ inputs = 2
    /\ Len(SelectSeq(messages, LAMBDA m : m.role = "user")) = 1
    /\ run.composed[1] = None
    /\ run.composed[2].kind = "dict"

\* C30: in a composition the page fetched for each research query is the
\* first result link of that query's own search response, or the empty
\* link when that search failed or returned no items; a failed search never
\* makes the link of an earlier query be used again.
C30_LinkBelongsToItsQuery ==
    run.op = "create_itinerary" =>
        LET queries == search_queries(collected_info["destination"])
            fetches == SelectSeq(run.calls, LAMBDA c : c.fn = "get_data_from_url")
        IN
        /\ Len(fetches) = NumQueries
        /\ \A q \in 1..NumQueries :
              fetches[q].args[1] =
                 (IF run.env.search[q] = "hit"
                  THEN <<"link for">> \o queries[q]
                  ELSE <<>>)

====
